---- MODULE Spec2Model ----
(***************************************************************************)
(* A model of lib/uring/uring_stubs.c, the C stubs of ocaml-uring: the     *)
(* submission encoders, submit, and the three completion retrievals, run   *)
(* by one caller thread against a kernel that consumes submission entries  *)
(* and writes completion entries concurrently.                             *)
(*                                                                         *)
(* Widths are scaled: an OCaml int has IdBits bits (63 in the program) and *)
(* a machine word IdBits + 1 bits (64 in the program).  Timeouts are in    *)
(* tenths of a second, nanoseconds in tenths of a second too.              *)
(***************************************************************************)
EXTENDS Integers, Sequences, FiniteSets, Bags, TLC

\* ------------------------------------------------------------------ bounds

\* Bits of an OCaml int (63 in the program, scaled): enough for every result
\* the kernel writes, as the 63 bits are for a 32-bit result.
IdBits == 8
\* Successful encodings in one run.
MaxOps == 3
\* Successful encodings other than no-ops in one run.
MaxIo == 1
\* Largest queue depth passed to setup.
MaxDepth == 2

\* ------------------------------------------------------- program constants

EAGAIN == 11
EINTR == 4
ETIME == 62
EINVAL == 22
EPERM == 1
ENOMEM == 12
EBADF == 9
EFAULT == 14
ENOENT == 2
EALREADY == 114
ECANCELED == 125
EBUSY == 16
ENXIO == 6
\* sizeof(union sock_addr_union), sizeof(struct sockaddr_in)
SockAddrUnionSize == 110
SockAddrInSize == 16
\* offsetof(struct sockaddr_un, sun_path), sizeof(sun_path)
SunPathOffset == 2
SunPathSize == 108
ENAMETOOLONG == 36
\* tenths of a second in a second: the scale of 1e9 ns per second
TenthsPerSec == 10

\* ------------------------------------------------------ value conversions

Word == 2 ^ (IdBits + 1)
MinId == -(2 ^ (IdBits - 1))
MaxId == 2 ^ (IdBits - 1) - 1

\* A word read as a signed long.
Signed(w) == IF w >= Word \div 2 THEN w - Word ELSE w

\* Val_long / Val_int: the tagged word of an integer, ((intnat)(n) << 1) + 1.
Val_long(n) == (2 * n + 1) % Word

\* Long_val: the integer of a tagged word, an arithmetic shift right by one.
Long_val(v) == Signed(v) \div 2

\* (void *) of a long, as stored in the 64-bit user_data field.
PtrOfLong(l) == l % Word

\* Mutant: the tagged word itself is stored as user data (Long_val forgotten).
SetDataRaw(v_id) == v_id

\* io_uring_sqe_set_data(sqe, (void *)Long_val(v_id))
SetData(v_id) == PtrOfLong(Long_val(v_id))

\* Val_int((long)io_uring_cqe_get_data(cqe))
GetData(user_data) == Val_long(Signed(user_data))

\* Val_int(cqe->res)
ValRes(res) == Val_long(res)

\* The ids a caller passes: the two ends of the range.
Ids == {MinId, MaxId}

\* The file descriptors a caller passes: an open one, and -1.
OpenFds == {3}
Fds == OpenFds \cup {-1}

\* ------------------------------------------------------------ the ring

Pow2Up(n) == CHOOSE p \in {2 ^ k : k \in 0..8} :
               p >= n /\ \A q \in {2 ^ k : k \in 0..8} : q >= n => p <= q

\* io_uring_queue_init(entries, ring, 0): the submission ring has the
\* requested depth rounded up to a power of two, the completion ring twice it.
SqRingEntries(entries) == Pow2Up(entries)
CqRingEntries(entries) == 2 * Pow2Up(entries)

\* ------------------------------------------------------ resource handles

\* A native address is an internet address (four address bytes and a port)
\* or a unix address (the bytes of a path).
InetAddr(a, b, c, d, port) == [family |-> "AF_INET", data |-> <<a, b, c, d, port>>]
UnixAddr(path) == [family |-> "AF_UNIX", data |-> path]

\* The address the handle of a ring's caller is built from, and the peer
\* address an accept receives.
NativeAddrs == { InetAddr(127, 0, 0, 1, 80) }

\* The addresses a caller builds a handle from: an internet address, a unix
\* path, an abstract unix address (leading zero byte), the unnamed unix
\* address, a path with a zero byte inside, and a path that is too long.
AddrInputs ==
  NativeAddrs \cup
  { UnixAddr(<<47, 97>>), UnixAddr(<<0, 97>>), UnixAddr(<<>>),
    UnixAddr(<<97, 0, 98>>), UnixAddr([i \in 1..SunPathSize |-> 97]) }

\* A byte string in a zeroed buffer of n bytes.
Pad(s, n) == [i \in 1..n |-> IF i <= Len(s) THEN s[i] ELSE 0]

\* strnlen(buf, n)
strnlen(buf, n) ==
  CHOOSE k \in 0..n : (k = n \/ buf[k + 1] = 0) /\ (\A j \in 1..k : buf[j] # 0)

\* htons and ntohs: a port as two bytes in network order, and back.
htons(port) == <<(port \div 256) % 256, port % 256>>
ntohs(b) == b[1] * 256 + b[2]

\* get_sockaddr: the error raised, if any, and the socket address structure
\* and length written.  A unix path must fit with its terminator and, unless
\* abstract, hold no zero byte; the structure is zeroed before it is filled.
get_sockaddr(a) ==
  IF a.family = "AF_INET"
    THEN [error |-> 0,
          addr |-> [family |-> "AF_INET",
                    bytes |-> htons(a.data[5]) \o SubSeq(a.data, 1, 4)
                              \o [i \in 1..8 |-> 0]],
          len |-> SockAddrInSize]
  ELSE IF Len(a.data) >= SunPathSize
    THEN [error |-> ENAMETOOLONG, addr |-> <<>>, len |-> 0]
  ELSE IF Len(a.data) > 0 /\ a.data[1] # 0 /\ \E i \in 1..Len(a.data) : a.data[i] = 0
    THEN [error |-> ENOENT, addr |-> <<>>, len |-> 0]
  ELSE [error |-> 0,
        addr |-> [family |-> "AF_UNIX", bytes |-> Pad(a.data, SunPathSize)],
        len |-> SunPathOffset + Len(a.data)]

\* alloc_sockaddr(adr, adr_len, -1): the native address of a socket address
\* structure.  The length of a unix path is taken from adr_len; a path that
\* does not start with a zero byte ends at its first zero byte.
alloc_sockaddr(adr, adr_len) ==
  IF adr.family = "AF_INET"
    THEN InetAddr(adr.bytes[3], adr.bytes[4], adr.bytes[5], adr.bytes[6],
                  ntohs(SubSeq(adr.bytes, 1, 2)))
  ELSE LET room == IF adr_len > SunPathOffset THEN adr_len - SunPathOffset ELSE 0
           path_length == IF room > 0 /\ adr.bytes[1] # 0
                            THEN strnlen(adr.bytes, room) ELSE room
       IN  UnixAddr(SubSeq(adr.bytes, 1, path_length))

\* ocaml_uring_make_sockaddr: the block holds the translated address and length.
make_sockaddr(a) == [sock_addr_addr |-> get_sockaddr(a).addr,
                     sock_addr_len |-> get_sockaddr(a).len]

\* ocaml_uring_make_open_how: options record followed by the path.
make_open_how(flags, mode, resolve, path) ==
  [flags |-> flags, mode |-> mode, resolve |-> resolve, path |-> path]

\* open_how handles are built from one options record and path.
OpenHows == { make_open_how(0, 0, 0, <<47, 0>>) }

\* --------------------------------------------------------------- state

VARIABLES
  entries,    \* the queue depth given to ocaml_uring_setup
  sq,         \* submission entries filled and not yet consumed by the kernel
  inflight,   \* operations the kernel has consumed and not yet completed
  cqes,       \* the completion ring's slots
  khead,      \* completion ring head (advanced by io_uring_cqe_seen)
  ktail,      \* completion ring tail (advanced by the kernel)
  sa,         \* the block of the caller's socket-address handle
  oh,         \* the block of the caller's open_how handle
  pc,         \* where the caller thread is
  cur,        \* locals of the stub the caller is inside
  ret,        \* the value a stub returned in the last step, NoRet if none did
  produced,   \* history: every completion the kernel wrote, in order, with the
              \* id its operation was encoded with and the kind of the operation
  returned,   \* history: every completion a retrieval returned, in order
  ring,       \* Ring_val(v_uring), the structure it points to and its queue pair
  registered, \* buffer regions registered with the ring's queue pair
  handles,    \* the two resource handles: reachability of the custom value,
              \* its pointer, its native block, and the address it was built from
  extra       \* the caller's table: what it keeps for each id it has in use

vars == <<entries, sq, inflight, cqes, khead, ktail, sa, oh, pc, cur, ret,
          produced, returned, ring, registered, handles, extra>>

ring_vars == <<entries, sq, inflight, cqes, khead, ktail>>
hist_vars == <<produced, returned>>
life_vars == <<ring, registered>>

\* A handle before its construction, and a handle its constructor returned.
NoHandle == [gc |-> "none", val |-> "NULL", block |-> "none", frees |-> 0, src |-> <<>>]
LiveHandle(src) == [gc |-> "live", val |-> "data", block |-> "allocated", frees |-> 0,
                    src |-> src]

\* The block of a socket-address handle that holds no address.
NoSockAddr == [sock_addr_addr |-> <<>>, sock_addr_len |-> 0]

NoLocals == [fn |-> "none", id |-> 0, slot |-> 0, timeout |-> 0, tv_sec |-> 0, tv_nsec |-> 0]

NoRet == [fn |-> "none", tag |-> "none", b |-> FALSE, id |-> 0, res |-> 0]
RetBool(fn, b) == [fn |-> fn, tag |-> "bool", b |-> b, id |-> 0, res |-> 0]
RetInt(fn, n) == [fn |-> fn, tag |-> "int", b |-> FALSE, id |-> 0, res |-> n]
RetNone(fn) == [fn |-> fn, tag |-> "cqe_none", b |-> FALSE, id |-> 0, res |-> 0]
RetSome(fn, id, res) == [fn |-> fn, tag |-> "cqe_some", b |-> FALSE, id |-> id, res |-> res]
RetRaise(fn, errno) == [fn |-> fn, tag |-> "raise", b |-> FALSE, id |-> 0, res |-> errno]
RetAddr(fn, a) == [fn |-> fn, tag |-> "sockaddr", b |-> FALSE, id |-> 0, res |-> a]
RetHandle(fn) == [fn |-> fn, tag |-> "handle", b |-> FALSE, id |-> 0, res |-> 0]
RetUnit(fn) == [fn |-> fn, tag |-> "unit", b |-> FALSE, id |-> 0, res |-> 0]
RetOom(fn) == [fn |-> fn, tag |-> "out_of_memory", b |-> FALSE, id |-> 0, res |-> 0]
\* The process was killed inside the stub (SIGSEGV).
RetKilled(fn) == [fn |-> fn, tag |-> "killed", b |-> FALSE, id |-> 0, res |-> 0]
\* The stub returned a value that no line of it computes.
RetGarbage(fn) == [fn |-> fn, tag |-> "garbage", b |-> FALSE, id |-> 0, res |-> 0]

\* No ring: before ocaml_uring_setup.
NoRing == [val |-> "none", mem |-> "none", frees |-> 0, queue |-> "none", exits |-> 0]

\* The ring ocaml_uring_setup returns: Ring_val points to the allocated
\* structure, whose queue pair is open.
SetupRing == [val |-> "ring", mem |-> "allocated", frees |-> 0, queue |-> "open", exits |-> 0]

\* The completion ring of a new queue pair.
NewCqes(n) == [i \in 0..(CqRingEntries(n) - 1) |-> [user_data |-> 0, res |-> 0]]

\* ocaml_uring_setup has returned a ring of the requested depth; the caller
\* holds one socket-address handle and one open_how handle.
Init ==
  /\ entries \in 1..MaxDepth
  /\ sq = <<>>
  /\ inflight = EmptyBag
  /\ cqes = NewCqes(entries)
  /\ khead = 0
  /\ ktail = 0
  /\ \E a \in NativeAddrs :
       /\ sa = make_sockaddr(a)
       /\ handles = [sock_addr |-> LiveHandle(<<a>>), open_how |-> LiveHandle(<<>>)]
  /\ oh \in OpenHows
  /\ extra = {}
  /\ pc = "idle"
  /\ cur = NoLocals
  /\ ret = NoRet
  /\ produced = <<>>
  /\ returned = <<>>
  /\ ring = SetupRing
  /\ registered = 0

\* A stub called on a ring after ocaml_uring_exit: Ring_val is NULL and the
\* stub hands it to liburing, which dereferences it.  Undefined behaviour:
\* the process is killed, or the call returns some value.
NullRingOutcomes(fn) == {RetKilled(fn), RetGarbage(fn)}

NullRing(fn) ==
  /\ \E r \in NullRingOutcomes(fn) :
       /\ ret' = r
       /\ pc' = IF r.tag = "killed" THEN "killed" ELSE "idle"
  /\ cur' = NoLocals
  /\ UNCHANGED <<ring_vars, oh, handles, extra, hist_vars, life_vars>>

\* ------------------------------------------------------------- encoders

\* What the kernel keeps of an entry it consumed: the user data, and of the
\* operation what decides its result and its writes to the caller's memory.
KernelKind(opcode) ==
  IF opcode \in {"NOP", "ACCEPT", "CONNECT", "OPENAT2", "ASYNC_CANCEL"} THEN opcode
  ELSE IF opcode \in {"READ_FIXED", "WRITE_FIXED"} THEN "FIXED"
  ELSE "IO"
KernelOp(e) == [kind |-> KernelKind(e.opcode), user_data |-> e.user_data,
                gid |-> e.gid,
                fd_ok |-> e.opcode \in {"NOP", "ASYNC_CANCEL"}
                            \/ (e.fd \in OpenFds /\ e.fd_out \in OpenFds),
                target |-> e.target,
                canceled |-> FALSE]

\* The entries of a sequence, as a bag of what the kernel keeps of each.
RECURSIVE Consumed(_)
Consumed(s) == IF s = <<>> THEN EmptyBag
               ELSE SetToBag({KernelOp(Head(s))}) (+) Consumed(Tail(s))

\* A bag as a sequence, in some order.
RECURSIVE BagSeq(_)
BagSeq(b) == IF b = EmptyBag THEN <<>>
             ELSE LET e == CHOOSE x \in BagToSet(b) : TRUE
                  IN  <<e>> \o BagSeq(b (-) SetToBag({e}))

\* Every operation encoded so far (kind and id): the ones still in the
\* submission ring, the ones in flight and the completed ones.
Encoded ==
  [i \in 1..Len(sq) |-> [kind |-> KernelKind(sq[i].opcode), gid |-> sq[i].gid]]
  \o [i \in 1..BagCardinality(inflight) |->
        [kind |-> BagSeq(inflight)[i].kind, gid |-> BagSeq(inflight)[i].gid]]
  \o [i \in 1..Len(produced) |-> [kind |-> produced[i].kind, gid |-> produced[i].gid]]

\* Mutant: a slot is handed out even when every slot is filled.
get_sqe_always(q, n) == TRUE

\* io_uring_get_sqe: a free slot exists unless every slot is filled and unsubmitted.
io_uring_get_sqe(q, n) == Len(q) < SqRingEntries(n)

\* The caller's table.  It keeps, under the id of each operation it has
\* encoded, the handle the operation refers to, until a retrieval returns
\* that id.
Retain(id, addr) ==
  {e \in extra : e.id # id} \cup {[id |-> id, addr |-> addr]}
Release(id) == {e \in extra : e.id # id}

\* The body every encoder shares: get a slot or return false; prepare the
\* entry; set its user data; return true.
Encode(fn, opcode, id, fd, fd_out, addr, target) ==
  /\ pc = "idle"
  /\ ring.val # "none"
  /\ IF ring.val = "NULL" THEN NullRing(fn)
     ELSE
       /\ io_uring_get_sqe(sq, entries) =>
            /\ Len(Encoded) < MaxOps
            /\ opcode # "NOP" => Len(SelectSeq(Encoded, LAMBDA e : e.kind # "NOP")) < MaxIo
       /\ IF io_uring_get_sqe(sq, entries)
            THEN /\ sq' = Append(sq, [opcode |-> opcode,
                                      user_data |-> SetData(Val_long(id)),
                                      fd |-> fd, fd_out |-> fd_out,
                                      addr |-> addr, target |-> target,
                                      gid |-> id])
                 /\ ret' = RetBool(fn, TRUE)
                 /\ extra' = Retain(id, addr)
            ELSE /\ UNCHANGED <<sq, extra>>
                 /\ ret' = RetBool(fn, FALSE)
       /\ UNCHANGED <<entries, inflight, cqes, khead, ktail, oh, handles, pc, cur,
                      produced, returned, life_vars>>

\* io_uring_prep_nop and io_uring_prep_cancel leave the entry's fd at -1.
ocaml_uring_submit_nop(id) ==
  Encode("submit_nop", "NOP", id, -1, -1, "none", 0) /\ UNCHANGED sa

ocaml_uring_submit_openat2(id, fd) ==
  /\ handles.open_how.gc = "live"
  /\ Encode("submit_openat2", "OPENAT2", id, fd, fd, "open_how", 0)
  /\ UNCHANGED sa

\* Mutant: a file descriptor that cannot be open is refused by the encoder.
ocaml_uring_submit_close_checks_fd(fd, id) ==
  IF fd < 0
    THEN /\ pc = "idle"
         /\ ring.val = "ring"
         /\ ret' = RetRaise("submit_close", EBADF)
         /\ UNCHANGED <<ring_vars, sa, oh, handles, extra, pc, cur, hist_vars, life_vars>>
    ELSE Encode("submit_close", "CLOSE", id, fd, fd, "none", 0) /\ UNCHANGED sa

ocaml_uring_submit_close(fd, id) ==
  Encode("submit_close", "CLOSE", id, fd, fd, "none", 0) /\ UNCHANGED sa

ocaml_uring_submit_poll_add(fd, id) ==
  Encode("submit_poll_add", "POLL_ADD", id, fd, fd, "none", 0) /\ UNCHANGED sa

ocaml_uring_submit_readv(fd, id) ==
  Encode("submit_readv", "READV", id, fd, fd, "iovec", 0) /\ UNCHANGED sa

ocaml_uring_submit_writev(fd, id) ==
  Encode("submit_writev", "WRITEV", id, fd, fd, "iovec", 0) /\ UNCHANGED sa

ocaml_uring_submit_readv_fixed_native(fd, id) ==
  Encode("submit_readv_fixed", "READ_FIXED", id, fd, fd, "ba", 0) /\ UNCHANGED sa

ocaml_uring_submit_writev_fixed_native(fd, id) ==
  Encode("submit_writev_fixed", "WRITE_FIXED", id, fd, fd, "ba", 0) /\ UNCHANGED sa

ocaml_uring_submit_splice(id, fd_in, fd_out) ==
  Encode("submit_splice", "SPLICE", id, fd_in, fd_out, "none", 0) /\ UNCHANGED sa

ocaml_uring_submit_connect(id, fd) ==
  /\ handles.sock_addr.gc = "live"
  /\ Encode("submit_connect", "CONNECT", id, fd, fd, "sock_addr", 0)
  /\ UNCHANGED sa

\* The length field of the handle is reset to the capacity before the slot is asked for.
ocaml_uring_submit_accept(id, fd) ==
  /\ handles.sock_addr.gc = "live"
  /\ sa' = [sa EXCEPT !.sock_addr_len = SockAddrUnionSize]
  /\ Encode("submit_accept", "ACCEPT", id, fd, fd, "sock_addr", 0)

\* Mutant: the entry's own user data is set from the target.
ocaml_uring_submit_cancel_tags_target(id, v_target) ==
  /\ pc = "idle"
  /\ ring.val = "ring"
  /\ io_uring_get_sqe(sq, entries)
  /\ Len(Encoded) < MaxOps
  /\ Len(SelectSeq(Encoded, LAMBDA e : e.kind # "NOP")) < MaxIo
  /\ sq' = Append(sq, [opcode |-> "ASYNC_CANCEL",
                       user_data |-> SetData(Val_long(v_target)),
                       fd |-> -1, fd_out |-> -1, addr |-> "none",
                       target |-> SetData(Val_long(v_target)), gid |-> id])
  /\ ret' = RetBool("submit_cancel", TRUE)
  /\ UNCHANGED <<entries, inflight, cqes, khead, ktail, sa, oh, handles, extra, pc, cur, produced,
                 returned, life_vars>>

\* The target is passed as the user data of the operation to cancel.
ocaml_uring_submit_cancel(id, v_target) ==
  Encode("submit_cancel", "ASYNC_CANCEL", id, -1, -1, "none", SetData(Val_long(v_target)))
  /\ UNCHANGED sa

\* --------------------------------------------------------------- submit

\* io_uring_submit: the number of entries the kernel consumed, or -errno
\* with nothing consumed.
io_uring_submit_results(n) == IF n = 0 THEN {0} ELSE (1..n) \cup {-EAGAIN}

ocaml_uring_submit ==
  /\ pc = "idle"
  /\ ring.val # "none"
  /\ IF ring.val = "NULL" THEN NullRing("submit") /\ UNCHANGED sa
     ELSE
       /\ \E num \in io_uring_submit_results(Len(sq)) :
            /\ IF num > 0
                 THEN /\ inflight' = inflight (+) Consumed(SubSeq(sq, 1, num))
                      /\ sq' = SubSeq(sq, num + 1, Len(sq))
                 ELSE UNCHANGED <<sq, inflight>>
            /\ ret' = RetInt("submit", num)
       /\ UNCHANGED <<entries, cqes, khead, ktail, sa, oh, handles, extra, pc, cur, hist_vars, life_vars>>

\* --------------------------------------------------------------- kernel

\* The operations in flight a cancel can hit: the ones, other than the cancel
\* itself, whose user data is its target and that no cancel has hit yet.
CancelTargets(op, ops) ==
  {t \in BagToSet(ops (-) SetToBag({op})) : t.user_data = op.target /\ ~t.canceled}

\* The result the kernel reports for an operation: 0 for a no-op; for a
\* cancel, 0 when it hit its target, otherwise that the target is running or
\* unknown; for any other operation an error or a success value, the error
\* being fixed when the operation was canceled, its file descriptor is not
\* open or it uses the registered buffer and none is registered.
ResultsOf(op, ops, nbufs) ==
  IF op.canceled THEN {-ECANCELED}
  ELSE IF op.kind = "NOP" THEN {0}
  ELSE IF op.kind = "ASYNC_CANCEL"
         THEN (IF CancelTargets(op, ops) # {} THEN {0, -EALREADY} ELSE {-ENOENT})
  ELSE IF ~op.fd_ok THEN {-EBADF}
  ELSE IF op.kind = "FIXED" /\ nbufs = 0 THEN {-EFAULT}
  ELSE {-EPERM, 1}

\* The kernel completes one in-flight operation: it writes a completion entry
\* at the tail when the completion ring has room.  A successful accept also
\* writes the peer address and its length into the handle's block; a cancel
\* that hit its target marks it canceled.
kernel_complete ==
  /\ ring.queue = "open"
  /\ ktail - khead < CqRingEntries(entries)
  /\ \E op \in BagToSet(inflight) : \E r \in ResultsOf(op, inflight, registered) :
       /\ cqes' = [cqes EXCEPT ![ktail % CqRingEntries(entries)] =
                     [user_data |-> op.user_data, res |-> r]]
       /\ IF op.kind = "ASYNC_CANCEL" /\ r = 0
            THEN \E t \in CancelTargets(op, inflight) :
                   inflight' = (inflight (-) SetToBag({op, t}))
                               (+) SetToBag({[t EXCEPT !.canceled = TRUE]})
            ELSE inflight' = inflight (-) SetToBag({op})
       /\ produced' = Append(produced, [kind |-> op.kind, gid |-> op.gid, res |-> r])
       /\ IF op.kind = "ACCEPT" /\ r >= 0
            THEN \E peer \in NativeAddrs : sa' = make_sockaddr(peer)
            ELSE UNCHANGED sa
  /\ ktail' = ktail + 1
  /\ ret' = NoRet
  /\ UNCHANGED <<entries, sq, khead, oh, handles, extra, pc, cur, returned, life_vars>>

\* --------------------------------------------------- completion retrieval

\* io_uring_peek_cqe: 0 with the entry at the head, or -EAGAIN when the
\* completion ring holds no unseen entry.
io_uring_peek_cqe(head, tail) == IF tail > head THEN 0 ELSE -EAGAIN

\* io_uring_wait_cqe: 0 with the entry at the head; while there is none the
\* wait can end by a signal or a retry indication.
io_uring_wait_cqe(head, tail) == IF tail > head THEN {0} ELSE {-EINTR, -EAGAIN}

\* io_uring_wait_cqe_timeout: as above; while there is no entry the wait ends
\* when the timer fires, and a negative timespec is refused.
io_uring_wait_cqe_timeout(head, tail, tv_sec, tv_nsec) ==
  IF tail > head THEN {0}
  ELSE IF tv_sec < 0 \/ tv_nsec < 0 THEN {-EINVAL}
  ELSE {-ETIME, -EINTR, -EAGAIN}

\* The branch ocaml_uring_wait_cqe takes on the result of the wait.
wait_cqe_outcome(res) ==
  IF res < 0 THEN (IF res = -EAGAIN \/ res = -EINTR THEN "none" ELSE "raise")
  ELSE "some"

\* Mutant: only an interrupted peek counts as "no completion".
peek_cqe_outcome_eintr(res) ==
  IF res < 0 THEN (IF res = -EINTR THEN "none" ELSE "raise") ELSE "some"

\* The branch ocaml_uring_peek_cqe takes on the result of the peek.
peek_cqe_outcome(res) ==
  IF res < 0 THEN (IF res = -EAGAIN \/ res = -EINTR THEN "none" ELSE "raise")
  ELSE "some"

\* Mutant: a timeout is not told apart from the other kernel errors.
wait_cqe_timeout_outcome_no_etime(res) ==
  IF res < 0 THEN (IF res = -EAGAIN \/ res = -EINTR THEN "none" ELSE "raise")
  ELSE "some"

\* The branch ocaml_uring_wait_cqe_timeout takes on the result of the wait.
wait_cqe_timeout_outcome(res) ==
  IF res < 0
    THEN (IF res = -EAGAIN \/ res = -EINTR \/ res = -ETIME THEN "none" ELSE "raise")
    ELSE "some"

\* io_uring_cqe_seen: the head moves past the entry, releasing its slot.
io_uring_cqe_seen(head) == head + 1

\* What a retrieval does with the result of its wait or peek: return None,
\* raise, or read the id of the entry at the head and mark the entry seen.
\* The result field is read later, in RetrievalReturn.
Retrieve(fn, outcome, res) ==
  /\ IF outcome = "some"
       THEN /\ cur' = [cur EXCEPT !.fn = fn,
                                  !.id = GetData(cqes[khead % CqRingEntries(entries)].user_data),
                                  !.slot = khead % CqRingEntries(entries)]
            /\ khead' = io_uring_cqe_seen(khead)
            /\ pc' = "seen"
            /\ ret' = NoRet
       ELSE /\ ret' = IF outcome = "none" THEN RetNone(fn) ELSE RetRaise(fn, -res)
            /\ pc' = "idle"
            /\ cur' = NoLocals
            /\ UNCHANGED khead
  /\ UNCHANGED <<entries, sq, inflight, cqes, ktail, sa, oh, handles, extra, hist_vars, life_vars>>

\* Val_cqe_some(Val_int(id), Val_int(cqe->res)): the result is read from the
\* entry's slot after the slot was released.
RetrievalReturn(fn) ==
  /\ pc = "seen"
  /\ cur.fn = fn
  /\ LET id == Long_val(cur.id)
         res == Long_val(ValRes(cqes[cur.slot].res))
     IN  /\ ret' = RetSome(fn, id, res)
         /\ returned' = Append(returned, [id |-> id, res |-> res])
         /\ extra' = Release(id)
  /\ pc' = "idle"
  /\ cur' = NoLocals
  /\ UNCHANGED <<ring_vars, sa, oh, handles, produced, life_vars>>

\* ocaml_uring_peek_cqe up to io_uring_cqe_seen.
ocaml_uring_peek_cqe ==
  /\ pc = "idle"
  /\ ring.val # "none"
  /\ IF ring.val = "NULL" THEN NullRing("peek_cqe") /\ UNCHANGED sa
     ELSE LET res == io_uring_peek_cqe(khead, ktail)
          IN  Retrieve("peek_cqe", peek_cqe_outcome(res), res)

ocaml_uring_peek_cqe_return == RetrievalReturn("peek_cqe")

\* ocaml_uring_wait_cqe enters io_uring_wait_cqe.
ocaml_uring_wait_cqe_call ==
  /\ pc = "idle"
  /\ ring.val # "none"
  /\ IF ring.val = "NULL" THEN NullRing("wait_cqe") /\ UNCHANGED sa
     ELSE /\ pc' = "wait_cqe"
          /\ cur' = [NoLocals EXCEPT !.fn = "wait_cqe"]
          /\ ret' = NoRet
          /\ UNCHANGED <<ring_vars, sa, oh, handles, extra, hist_vars, life_vars>>

\* io_uring_wait_cqe returns, and ocaml_uring_wait_cqe runs up to io_uring_cqe_seen.
ocaml_uring_wait_cqe ==
  /\ pc = "wait_cqe"
  /\ \E res \in io_uring_wait_cqe(khead, ktail) :
       Retrieve("wait_cqe", wait_cqe_outcome(res), res)

ocaml_uring_wait_cqe_return == RetrievalReturn("wait_cqe")

\* (time_t) of a double: truncation toward zero.
TimeT(timeout) ==
  IF timeout >= 0 THEN timeout \div TenthsPerSec ELSE -((-timeout) \div TenthsPerSec)

Timeouts == {-5, 15}

\* ocaml_uring_wait_cqe_timeout converts the timeout and enters
\* io_uring_wait_cqe_timeout.
ocaml_uring_wait_cqe_timeout_call(timeout) ==
  /\ pc = "idle"
  /\ ring.val # "none"
  /\ IF ring.val = "NULL" THEN NullRing("wait_cqe_timeout") /\ UNCHANGED sa
     ELSE /\ pc' = "wait_cqe_timeout"
          /\ cur' = [NoLocals EXCEPT !.fn = "wait_cqe_timeout",
                                     !.timeout = timeout,
                                     !.tv_sec = TimeT(timeout),
                                     !.tv_nsec = timeout - TimeT(timeout) * TenthsPerSec]
          /\ ret' = NoRet
          /\ UNCHANGED <<ring_vars, sa, oh, handles, extra, hist_vars, life_vars>>

\* io_uring_wait_cqe_timeout returns, and the stub runs up to io_uring_cqe_seen.
ocaml_uring_wait_cqe_timeout ==
  /\ pc = "wait_cqe_timeout"
  /\ \E res \in io_uring_wait_cqe_timeout(khead, ktail, cur.tv_sec, cur.tv_nsec) :
       Retrieve("wait_cqe_timeout", wait_cqe_timeout_outcome(res), res)

ocaml_uring_wait_cqe_timeout_return == RetrievalReturn("wait_cqe_timeout")

\* ------------------------------------------------- setup and teardown

\* The queue depths a caller passes to setup; 0 is one the kernel refuses.
Depths == 0..MaxDepth

\* io_uring_queue_init: 0, or -errno when the kernel refuses to create the
\* queue pair (a depth it does not accept, or no resources).
io_uring_queue_init(n) == IF n >= 1 THEN {0, -ENOMEM} ELSE {-EINVAL}

\* ocaml_uring_setup: allocate the structure, create the queue pair, wrap the
\* pointer in a custom block; raise when the kernel refuses.  Either
\* allocation can fail, raising Out_of_memory.
ocaml_uring_setup(depth) ==
  /\ pc = "idle"
  /\ ring = NoRing
  /\ \/ /\ ret' = RetOom("setup")
        /\ UNCHANGED <<ring, ring_vars>>
     \/ \E status \in io_uring_queue_init(depth) :
          IF status = 0
            THEN /\ entries' = depth
                 /\ sq' = <<>>
                 /\ inflight' = EmptyBag
                 /\ cqes' = NewCqes(depth)
                 /\ khead' = 0
                 /\ ktail' = 0
                 /\ \/ /\ ring' = SetupRing
                       /\ ret' = RetUnit("setup")
                    \/ /\ ring' = [SetupRing EXCEPT !.val = "none"]
                       /\ ret' = RetOom("setup")
            ELSE /\ ring' = [ring EXCEPT !.mem = "allocated"]
                 /\ ret' = RetRaise("setup", -status)
                 /\ UNCHANGED ring_vars
  /\ UNCHANGED <<sa, oh, handles, extra, pc, cur, hist_vars, registered>>

\* Mutant: the pointer in the custom block is not cleared.
ocaml_uring_exit_keeps_pointer ==
  /\ pc = "idle"
  /\ ring.val = "ring"
  /\ ring' = [ring EXCEPT !.mem = "freed", !.frees = @ + 1,
                          !.queue = "closed", !.exits = @ + 1]
  /\ sq' = <<>>
  /\ inflight' = EmptyBag
  /\ khead' = 0
  /\ ktail' = 0
  /\ registered' = 0
  /\ ret' = RetUnit("exit")
  /\ UNCHANGED <<entries, cqes, sa, oh, handles, extra, pc, cur, hist_vars>>

\* ocaml_uring_exit: when the pointer is not NULL, io_uring_queue_exit closes
\* the queue pair (the kernel drops what it held for it: entries, operations
\* in flight, the registered buffer), the structure is freed and the pointer
\* set to NULL; when it is NULL, nothing.
ocaml_uring_exit ==
  /\ pc = "idle"
  /\ ring.val # "none"
  /\ IF ring.val = "ring"
       THEN /\ ring' = [ring EXCEPT !.val = "NULL", !.mem = "freed", !.frees = @ + 1,
                                    !.queue = "closed", !.exits = @ + 1]
            /\ sq' = <<>>
            /\ inflight' = EmptyBag
            /\ khead' = 0
            /\ ktail' = 0
            /\ registered' = 0
       ELSE UNCHANGED <<ring, sq, inflight, khead, ktail, registered>>
  /\ ret' = RetUnit("exit")
  /\ UNCHANGED <<entries, cqes, sa, oh, handles, extra, pc, cur, hist_vars>>

\* ------------------------------------------------- registered buffers

\* io_uring_register_buffers(ring, iov, 1): the kernel refuses a second
\* registration, and can refuse a first one.
io_uring_register_buffers(n) == IF n > 0 THEN {-EBUSY} ELSE {0, -ENOMEM}

\* io_uring_unregister_buffers: the kernel refuses when nothing is registered.
io_uring_unregister_buffers(n) == IF n > 0 THEN {0} ELSE {-ENXIO}

\* Mutant: only a positive return value counts as a failure.
register_outcome_positive(r) == IF r > 0 THEN "raise" ELSE "unit"

\* if (ret) unix_error(-ret, ...); CAMLreturn(Val_unit);
register_outcome(r) == IF r # 0 THEN "raise" ELSE "unit"

\* What both registration stubs do with the return value of liburing.
Registration(fn, r) ==
  /\ ret' = IF register_outcome(r) = "raise" THEN RetRaise(fn, -r) ELSE RetUnit(fn)
  /\ UNCHANGED <<ring_vars, sa, oh, handles, extra, pc, cur, hist_vars, ring>>

ocaml_uring_register_ba ==
  /\ pc = "idle"
  /\ ring.val # "none"
  /\ IF ring.val = "NULL" THEN NullRing("register_ba") /\ UNCHANGED sa
     ELSE \E r \in io_uring_register_buffers(registered) :
            /\ registered' = IF r = 0 THEN registered + 1 ELSE registered
            /\ Registration("register_ba", r)

ocaml_uring_unregister_ba ==
  /\ pc = "idle"
  /\ ring.val # "none"
  /\ IF ring.val = "NULL" THEN NullRing("unregister_ba") /\ UNCHANGED sa
     ELSE \E r \in io_uring_unregister_buffers(registered) :
            /\ registered' = IF r = 0 THEN 0 ELSE registered
            /\ Registration("unregister_ba", r)

\* ------------------------------------------- resource handle lifetime

\* The handle make_sockaddr leaves behind when get_sockaddr raises: the
\* custom value is unreachable, and its pointer was set to the block before
\* the translation was tried.
make_sockaddr_raised_unset(a) ==
  [gc |-> "dead", val |-> "NULL", block |-> "allocated", frees |-> 0, src |-> <<a>>]

make_sockaddr_raised(a) ==
  [gc |-> "dead", val |-> "data", block |-> "allocated", frees |-> 0, src |-> <<a>>]

\* The handle a constructor leaves behind when caml_stat_alloc raises after
\* the custom value was allocated: unreachable, its pointer NULL, no block.
alloc_failed(src) ==
  [gc |-> "dead", val |-> "NULL", block |-> "none", frees |-> 0, src |-> src]

\* ocaml_uring_make_sockaddr: allocate the custom value with a NULL pointer,
\* allocate the block, store the pointer, translate the address into the
\* block.  Either allocation can raise Out_of_memory, the translation can
\* raise a Unix error.
ocaml_uring_make_sockaddr(a) ==
  /\ pc = "idle"
  /\ handles.sock_addr.gc = "none"
  /\ \/ /\ ret' = RetOom("make_sockaddr")
        /\ UNCHANGED <<handles, sa>>
     \/ /\ ret' = RetOom("make_sockaddr")
        /\ handles' = [handles EXCEPT !.sock_addr = alloc_failed(<<a>>)]
        /\ UNCHANGED sa
     \/ /\ get_sockaddr(a).error # 0
        /\ ret' = RetRaise("make_sockaddr", get_sockaddr(a).error)
        /\ handles' = [handles EXCEPT !.sock_addr = make_sockaddr_raised(a)]
        /\ UNCHANGED sa
     \/ /\ get_sockaddr(a).error = 0
        /\ ret' = RetHandle("make_sockaddr")
        /\ handles' = [handles EXCEPT !.sock_addr = LiveHandle(<<a>>)]
        /\ sa' = make_sockaddr(a)
  /\ UNCHANGED <<ring_vars, oh, extra, pc, cur, hist_vars, life_vars>>

\* ocaml_uring_make_open_how: allocate the custom value with a NULL pointer,
\* allocate the block, fill it, store the pointer.
ocaml_uring_make_open_how(flags, mode, resolve, path) ==
  /\ pc = "idle"
  /\ handles.open_how.gc = "none"
  /\ \/ /\ ret' = RetOom("make_open_how")
        /\ UNCHANGED <<handles, oh>>
     \/ /\ ret' = RetOom("make_open_how")
        /\ handles' = [handles EXCEPT !.open_how = alloc_failed(<<>>)]
        /\ UNCHANGED oh
     \/ /\ ret' = RetHandle("make_open_how")
        /\ handles' = [handles EXCEPT !.open_how = LiveHandle(<<>>)]
        /\ oh' = make_open_how(flags, mode, resolve, path)
  /\ UNCHANGED <<ring_vars, sa, extra, pc, cur, hist_vars, life_vars>>

\* ocaml_uring_extract_sockaddr: the native address of the block's socket
\* address structure, read with the block's length field.
ocaml_uring_extract_sockaddr ==
  /\ pc = "idle"
  /\ handles.sock_addr.gc = "live"
  /\ ret' = RetAddr("extract_sockaddr",
                    alloc_sockaddr(sa.sock_addr_addr, sa.sock_addr_len))
  /\ UNCHANGED <<ring_vars, sa, oh, handles, extra, pc, cur, hist_vars, life_vars>>

\* caml_stat_free(p); p = NULL.  Freeing NULL does nothing.
stat_free_and_clear(h) ==
  [h EXCEPT !.block = IF h.val = "data" THEN "freed" ELSE @,
            !.frees = IF h.val = "data" THEN @ + 1 ELSE @,
            !.val = "NULL"]

\* The finalizer of a custom value, run by the collector once, after the
\* value became unreachable.
Finalize(name) ==
  /\ pc # "killed"
  /\ handles[name].gc = "dead"
  /\ handles' = [handles EXCEPT ![name] =
                   [stat_free_and_clear(@) EXCEPT !.gc = "finalized"]]
  /\ ret' = NoRet
  /\ UNCHANGED <<ring_vars, sa, oh, extra, pc, cur, hist_vars, life_vars>>

finalize_sock_addr == Finalize("sock_addr")

finalize_open_how == Finalize("open_how")

\* The caller lets go of a handle: it does so only when its table keeps the
\* handle for no operation.
caller_drops(name) ==
  /\ pc = "idle"
  /\ handles[name].gc = "live"
  /\ \A e \in extra : e.addr # name
  /\ handles' = [handles EXCEPT ![name].gc = "dead"]
  /\ ret' = NoRet
  /\ UNCHANGED <<ring_vars, sa, oh, extra, pc, cur, hist_vars, life_vars>>

\* ------------------------------------------------------- specification

\* One step of the caller thread, inside any stub working on a ring, or of the
\* kernel, the caller drawing its arguments from the given sets.
Stubs(ids, fds, targets) ==
  \/ \E id \in ids : ocaml_uring_submit_nop(id)
  \/ \E id \in ids, fd \in fds : ocaml_uring_submit_openat2(id, fd)
  \/ \E id \in ids, fd \in fds : ocaml_uring_submit_close(fd, id)
  \/ \E id \in ids, fd \in fds : ocaml_uring_submit_poll_add(fd, id)
  \/ \E id \in ids, fd \in fds : ocaml_uring_submit_readv(fd, id)
  \/ \E id \in ids, fd \in fds : ocaml_uring_submit_writev(fd, id)
  \/ \E id \in ids, fd \in fds : ocaml_uring_submit_readv_fixed_native(fd, id)
  \/ \E id \in ids, fd \in fds : ocaml_uring_submit_writev_fixed_native(fd, id)
  \/ \E id \in ids, fd_in \in fds, fd_out \in fds : ocaml_uring_submit_splice(id, fd_in, fd_out)
  \/ \E id \in ids, fd \in fds : ocaml_uring_submit_connect(id, fd)
  \/ \E id \in ids, fd \in fds : ocaml_uring_submit_accept(id, fd)
  \/ \E id \in ids, v_target \in targets : ocaml_uring_submit_cancel(id, v_target)
  \/ ocaml_uring_submit
  \/ kernel_complete
  \/ ocaml_uring_peek_cqe
  \/ ocaml_uring_peek_cqe_return
  \/ ocaml_uring_wait_cqe_call
  \/ ocaml_uring_wait_cqe
  \/ ocaml_uring_wait_cqe_return
  \/ \E timeout \in Timeouts : ocaml_uring_wait_cqe_timeout_call(timeout)
  \/ ocaml_uring_wait_cqe_timeout
  \/ ocaml_uring_wait_cqe_timeout_return

\* The caller passes open file descriptors and cancels the operations with
\* the least id.
Next == Stubs(Ids, OpenFds, {MinId})

Spec == Init /\ [][Next]_vars

\* The wait of ocaml_uring_wait_cqe_timeout ends: by a completion, or when the
\* kernel's timer fires; the rest of the stub is straight-line code.
LiveSpec ==
  /\ Init /\ [][Next]_vars
  /\ WF_vars(ocaml_uring_wait_cqe_timeout)
  /\ WF_vars(ocaml_uring_wait_cqe_timeout_return)

\* Cancellation: no-ops, cancels with any target, submit, the kernel and the
\* non-blocking retrieval.
CancelNext ==
  \/ \E id \in Ids : ocaml_uring_submit_nop(id)
  \/ \E id \in Ids, v_target \in Ids : ocaml_uring_submit_cancel(id, v_target)
  \/ ocaml_uring_submit
  \/ kernel_complete
  \/ ocaml_uring_peek_cqe
  \/ ocaml_uring_peek_cqe_return

CancelSpec == Init /\ [][CancelNext]_vars

\* Arguments the kernel refuses: every stub with one id, open and invalid
\* file descriptors, any cancel target, and buffer registration.
ArgNext ==
  \/ Stubs({MaxId}, Fds, Ids)
  \/ ocaml_uring_register_ba
  \/ ocaml_uring_unregister_ba

ArgSpec == Init /\ [][ArgNext]_vars

\* The whole life of a ring: from before ocaml_uring_setup to after
\* ocaml_uring_exit, with buffer registration; the caller uses one id.
RingInit ==
  /\ entries = 0
  /\ sq = <<>>
  /\ inflight = EmptyBag
  /\ cqes = <<>>
  /\ khead = 0
  /\ ktail = 0
  /\ \E a \in NativeAddrs :
       /\ sa = make_sockaddr(a)
       /\ handles = [sock_addr |-> LiveHandle(<<a>>), open_how |-> LiveHandle(<<>>)]
  /\ oh \in OpenHows
  /\ extra = {}
  /\ pc = "idle"
  /\ cur = NoLocals
  /\ ret = NoRet
  /\ produced = <<>>
  /\ returned = <<>>
  /\ ring = NoRing
  /\ registered = 0

RingNext ==
  \/ \E depth \in Depths : ocaml_uring_setup(depth)
  \/ ocaml_uring_exit
  \/ ocaml_uring_register_ba
  \/ ocaml_uring_unregister_ba
  \/ Stubs({MaxId}, OpenFds, {MaxId})

RingSpec == RingInit /\ [][RingNext]_vars

\* The caller has a ring and has built no handle yet.
NoOpenHow == make_open_how(0, 0, 0, <<>>)

HandleInit ==
  /\ entries \in 1..MaxDepth
  /\ sq = <<>>
  /\ inflight = EmptyBag
  /\ cqes = NewCqes(entries)
  /\ khead = 0
  /\ ktail = 0
  /\ sa = NoSockAddr
  /\ oh = NoOpenHow
  /\ handles = [sock_addr |-> NoHandle, open_how |-> NoHandle]
  /\ extra = {}
  /\ pc = "idle"
  /\ cur = NoLocals
  /\ ret = NoRet
  /\ produced = <<>>
  /\ returned = <<>>
  /\ ring = SetupRing
  /\ registered = 0

\* Socket addresses: a handle is built from any address, read back, and used
\* by connects and accepts that are submitted, completed and retrieved.
AddrNext ==
  \/ \E a \in AddrInputs : ocaml_uring_make_sockaddr(a)
  \/ ocaml_uring_extract_sockaddr
  \/ ocaml_uring_submit_nop(MaxId)
  \/ \E fd \in OpenFds : ocaml_uring_submit_connect(MaxId, fd)
  \/ \E fd \in OpenFds : ocaml_uring_submit_accept(MaxId, fd)
  \/ ocaml_uring_submit
  \/ kernel_complete
  \/ ocaml_uring_peek_cqe
  \/ ocaml_uring_peek_cqe_return

AddrSpec == HandleInit /\ [][AddrNext]_vars

\* The ids the caller hands out: each is in use by one operation at a time.
HandleIds == {0, 1}
FreeIds == {id \in HandleIds : \A e \in extra : e.id # id}

\* The addresses handles are built from: one that translates, one that does not.
HandleAddrs == NativeAddrs \cup { UnixAddr(<<97, 0, 98>>) }

\* The life of the handles: built, used by operations under ids the caller
\* has free, let go by the caller, finalized by the collector.
HandleNext ==
  \/ \E a \in HandleAddrs : ocaml_uring_make_sockaddr(a)
  \/ \E h \in OpenHows :
       ocaml_uring_make_open_how(h.flags, h.mode, h.resolve, h.path)
  \/ \E id \in FreeIds : ocaml_uring_submit_nop(id)
  \/ \E id \in FreeIds, fd \in OpenFds : ocaml_uring_submit_connect(id, fd)
  \/ \E id \in FreeIds, fd \in OpenFds : ocaml_uring_submit_accept(id, fd)
  \/ \E id \in FreeIds, fd \in OpenFds : ocaml_uring_submit_openat2(id, fd)
  \/ ocaml_uring_submit
  \/ kernel_complete
  \/ ocaml_uring_peek_cqe
  \/ ocaml_uring_peek_cqe_return
  \/ \E name \in {"sock_addr", "open_how"} : caller_drops(name)
  \/ finalize_sock_addr
  \/ finalize_open_how

HandleSpec == HandleInit /\ [][HandleNext]_vars

\* ---------------------------------------------------------------- claims

EncoderFns == {"submit_nop", "submit_openat2", "submit_close", "submit_poll_add",
               "submit_readv", "submit_writev", "submit_readv_fixed",
               "submit_writev_fixed", "submit_splice", "submit_connect",
               "submit_accept", "submit_cancel"}

RetrievalFns == {"peek_cqe", "wait_cqe", "wait_cqe_timeout"}

\* The completion the k-th retrieval has to return: the k-th the kernel wrote.
Completion(k) == [id |-> produced[k].gid, res |-> produced[k].res]

\* Exactly `entries` no-ops were encoded, with pairwise distinct ids, nothing
\* else was ever encoded, and submit has handed all of them to the kernel.
NopsSubmitted ==
  /\ Len(Encoded) = entries
  /\ \A i \in 1..Len(Encoded) : Encoded[i].kind = "NOP"
  /\ \A i, j \in 1..Len(Encoded) : i # j => Encoded[i].gid # Encoded[j].gid
  /\ sq = <<>>

\* C1: after N = queue depth no-ops with pairwise distinct ids and submit, the
\* retrievals return at most N completions, each with result 0 and the id of
\* one of the no-ops, no id twice; and once the kernel has completed them all
\* and the completion ring is drained, exactly N were returned.
C1_NopsAllComplete ==
  NopsSubmitted =>
    /\ Len(returned) <= entries
    /\ \A k \in 1..Len(returned) :
         /\ returned[k].res = 0
         /\ \E i \in 1..Len(Encoded) : Encoded[i].gid = returned[k].id
    /\ \A k, l \in 1..Len(returned) : k # l => returned[k].id # returned[l].id
    /\ (inflight = EmptyBag /\ khead = ktail /\ pc = "idle") =>
         /\ Len(returned) = entries
         /\ {returned[k].id : k \in 1..Len(returned)} =
              {Encoded[i].gid : i \in 1..Len(Encoded)}

\* C1 witness: on a ring of depth 2 both no-ops were completed and returned,
\* the one with the largest id first.
C1_Witness ==
  /\ NopsSubmitted
  /\ entries = 2
  /\ Len(returned) = 2
  /\ pc = "idle"
  /\ produced[1].gid = MaxId
  /\ returned[1].id = MaxId
  /\ returned[2].id = MinId

\* C2: a retrieval that returns a completion returns the id its operation was
\* encoded with and the result the kernel reported for that operation.
C2_IdAndResultEchoed ==
  (ret.fn \in RetrievalFns /\ ret.tag = "cqe_some") =>
    /\ Len(returned) <= Len(produced)
    /\ ret.id = produced[Len(returned)].gid
    /\ ret.res = produced[Len(returned)].res

\* C3: an encoder returns false exactly when every submission slot is filled
\* and unsubmitted; when it returns true one entry was added; on an empty
\* submission ring (fresh, or after submit accepted everything) it returns true.
C3_FalseIffFull ==
  [][ret'.fn \in EncoderFns =>
       /\ ret'.tag = "bool"
       /\ ret'.b <=> (Len(sq) < SqRingEntries(entries))
       /\ ret'.b => Len(sq') = Len(sq) + 1
       /\ sq = <<>> => ret'.b
       /\ pc = "idle" /\ pc' = "idle"]_vars

\* C3 witness: on a ring of the largest depth an encoder returned false, the
\* submission ring being full.
C3_Witness ==
  /\ ret.fn \in EncoderFns
  /\ ~ret.b
  /\ entries = MaxDepth
  /\ Len(sq) = SqRingEntries(entries)

\* C4: an encoder that returns false changes nothing: not the submission
\* ring, not the rings' other state, not the blocks of the resource handles.
C4_FalseChangesNothing ==
  [][(ret'.fn \in EncoderFns /\ ~ret'.b) =>
       /\ sq' = sq
       /\ UNCHANGED <<entries, inflight, cqes, khead, ktail>>
       /\ sa' = sa
       /\ oh' = oh]_vars

\* C5: the retrievals return the completions in the order the kernel wrote
\* them, each once: the k-th returned is the k-th written, and the head has
\* advanced by one for each returned completion and by nothing else.
C5_InOrderExactlyOnce ==
  /\ Len(returned) <= Len(produced)
  /\ \A k \in 1..Len(returned) : returned[k] = Completion(k)
  /\ khead = Len(returned) + (IF pc = "seen" THEN 1 ELSE 0)
  /\ khead <= ktail

\* C6: when a retrieval reads the result of the entry whose id it has read,
\* the entry's slot still holds that entry.
C6_ResultReadBeforeRelease ==
  pc = "seen" => cqes[cur.slot].res = produced[khead].res

\* C7: ocaml_uring_wait_cqe returns only with a completion, the oldest unseen.
C7_WaitAlwaysReturnsCompletion ==
  ret.fn = "wait_cqe" =>
    /\ ret.tag = "cqe_some"
    /\ ret.id = Completion(Len(returned)).id
    /\ ret.res = Completion(Len(returned)).res

\* C8: ocaml_uring_wait_cqe_timeout ends in one of three ways: Some of the
\* oldest unseen completion when there is one; None, the completion ring
\* unchanged, when the wait ends by timeout, signal or retry indication; a
\* raised error, the completion ring unchanged, for any other kernel error.
C8_ThreeOutcomes ==
  [][/\ ret'.fn = "wait_cqe_timeout" =>
          /\ ret'.tag \in {"cqe_some", "cqe_none", "raise"}
          /\ ret'.tag = "cqe_some" =>
               /\ ret'.id = Completion(Len(returned')).id
               /\ ret'.res = Completion(Len(returned')).res
               /\ khead' = Len(returned')
          /\ ret'.tag \in {"cqe_none", "raise"} =>
               /\ UNCHANGED <<cqes, khead, ktail>>
               /\ khead = ktail
          /\ ret'.tag = "raise" => ret'.res \notin {EAGAIN, EINTR, ETIME}
     /\ (pc = "wait_cqe_timeout" /\ pc' # pc) =>
          IF ktail > khead THEN pc' = "seen" /\ khead' = khead + 1 /\ ret' = NoRet
          ELSE IF cur.tv_sec >= 0 /\ cur.tv_nsec >= 0
                 THEN ret' = RetNone("wait_cqe_timeout")
                 ELSE ret' = RetRaise("wait_cqe_timeout", EINVAL)]_vars

\* C9: a call of ocaml_uring_wait_cqe_timeout with a positive timeout returns;
\* when the wait ends with no completion in the ring, it returns None.
C9_TimeoutWaitReturns ==
  /\ (pc = "wait_cqe_timeout" /\ cur.timeout > 0) ~> (ret.fn = "wait_cqe_timeout")
  /\ [][(pc = "wait_cqe_timeout" /\ cur.timeout > 0 /\ pc' = "idle") =>
          (khead = ktail /\ ret' = RetNone("wait_cqe_timeout"))]_vars

\* C9 witness: on a ring nothing was ever encoded on, the timed wait returned None.
C9_Witness ==
  /\ Len(Encoded) = 0
  /\ ret = RetNone("wait_cqe_timeout")

\* A step of ocaml_uring_peek_cqe, whatever it does.
PeekStep ==
  /\ pc = "idle"
  /\ \/ ret'.fn = "peek_cqe"
     \/ pc' = "seen" /\ cur'.fn = "peek_cqe"

\* C10: ocaml_uring_peek_cqe on a completion ring with no unseen entry
\* returns None at once and changes nothing; in particular on a ring nothing
\* was ever encoded on.
C10_PeekEmptyIsNone ==
  [][/\ (PeekStep /\ khead = ktail) =>
          /\ ret' = RetNone("peek_cqe")
          /\ pc' = "idle"
          /\ UNCHANGED <<ring_vars, sa, oh, hist_vars, life_vars>>
     /\ (PeekStep /\ Len(Encoded) = 0) => ret' = RetNone("peek_cqe")
     /\ ret'.fn = "peek_cqe" /\ ret'.tag = "cqe_none" => khead = ktail]_vars

\* C10 witness: peek returned None on a ring nothing was ever encoded on.
C10_Witness ==
  /\ Len(Encoded) = 0
  /\ ret = RetNone("peek_cqe")

\* C11: ocaml_uring_submit either returns the number of entries the kernel
\* accepted, between 0 and the number of filled unsubmitted slots, those
\* entries having gone from the submission ring to the kernel; or, when the
\* kernel rejects the submission, it raises and returns no value.
C11_SubmitCountOrRaise ==
  [][ret'.fn = "submit" =>
       /\ ret'.tag \in {"int", "raise"}
       /\ ret'.tag = "int" =>
            /\ ret'.res \in 0..Len(sq)
            /\ sq' = SubSeq(sq, ret'.res + 1, Len(sq))
            /\ BagCardinality(inflight') = BagCardinality(inflight) + ret'.res
       /\ ret'.tag = "raise" => UNCHANGED <<sq, inflight>>]_vars

\* C12: teardown is idempotent.  The first ocaml_uring_exit closes the queue
\* pair, frees the structure and clears the pointer; any later one changes
\* nothing and frees nothing, so the queue pair is closed and the structure
\* freed exactly once however many times teardown is called.
C12_TeardownIdempotent ==
  [][/\ ret'.fn = "exit" =>
          /\ ret' = RetUnit("exit")
          /\ ring'.val = "NULL" /\ ring'.mem = "freed" /\ ring'.queue = "closed"
          /\ ring.val = "ring" =>
               /\ ring'.frees = ring.frees + 1
               /\ ring'.exits = ring.exits + 1
          /\ ring.val = "NULL" =>
               UNCHANGED <<ring_vars, sa, oh, pc, cur, hist_vars, life_vars>>
     /\ ring'.frees <= 1
     /\ ring'.exits <= 1
     /\ ring'.val = "NULL" => (ring'.frees = 1 /\ ring'.exits = 1)]_vars

\* C12 witness: teardown has returned on a ring that had completions
\* retrieved; the state is the one after the first call and after every
\* repeated call.
C12_Witness ==
  /\ ret = RetUnit("exit")
  /\ ring.val = "NULL"
  /\ ring.frees = 1
  /\ Len(returned) > 0

\* The stubs that take a ring, other than teardown.
RingFns == EncoderFns \cup RetrievalFns \cup {"submit", "register_ba", "unregister_ba"}

\* C13: a ring handle is either live or torn down, and on a torn-down ring
\* every stub other than teardown raises an error, touching nothing.
C13_TornDownOpsFail ==
  [][/\ ring'.val \in {"none", "ring", "NULL"}
     /\ (ring.val = "NULL" /\ ret'.fn \in RingFns) =>
          /\ ret'.tag = "raise"
          /\ pc' = "idle"
          /\ UNCHANGED <<ring_vars, sa, oh, hist_vars, life_vars>>]_vars

\* C14: a ring has zero or one registered region.  Registering while one is
\* registered raises and keeps the registration; a registration that returns
\* normally has registered the one region; unregistering a registered region
\* clears it; a registration stub that raises leaves the ring live and as it was.
C14_OneRegistration ==
  [][/\ registered' \in {0, 1}
     /\ (ring.val = "ring" /\ ret'.fn = "register_ba") =>
          /\ registered = 1 => (ret'.tag = "raise" /\ registered' = 1)
          /\ ret'.tag = "unit" => (registered = 0 /\ registered' = 1)
          /\ ret'.tag \in {"unit", "raise"}
     /\ (ring.val = "ring" /\ ret'.fn = "unregister_ba") =>
          /\ registered = 1 => (ret'.tag = "unit" /\ registered' = 0)
          /\ ret'.tag = "unit" => registered' = 0
          /\ ret'.tag \in {"unit", "raise"}
     /\ (ring.val = "ring" /\ ret'.fn \in {"register_ba", "unregister_ba"}
           /\ ret'.tag = "raise") =>
          /\ ring' = ring
          /\ pc' = "idle"
          /\ UNCHANGED <<ring_vars, sa, oh, cur, hist_vars, registered>>]_vars

\* C14 witness: a second registration was refused with a region registered
\* and an entry waiting in the submission ring.
C14_Witness ==
  /\ ret = RetRaise("register_ba", EBUSY)
  /\ registered = 1
  /\ ring.val = "ring"
  /\ Len(sq) > 0

\* C20: the structure ocaml_uring_setup allocates is owned by a ring handle
\* the caller holds, or is freed: a setup that raises has released what it
\* allocated, and teardown frees the structure of its handle.
C20_RingStructureOwnedOrFreed ==
  /\ ring.mem = "allocated" => ring.val = "ring"
  /\ ring.queue = "open" => ring.val = "ring"
  /\ ring.val = "NULL" => ring.mem = "freed"

\* C16: a cancel is accepted whatever the state of its target: the encoder
\* returns true whenever a slot is free.  The cancel and its target each get
\* one completion, delivered once under their own ids: the retrievals return
\* the ids in the order the kernel wrote the completions, one per completion,
\* and when everything has completed and the completion ring is drained every
\* encoded operation, cancel or target, has had its id returned exactly once.
C16_CancelOwnCompletion ==
  [][/\ ret'.fn = "submit_cancel" =>
          /\ ret'.tag = "bool"
          /\ ret'.b <=> Len(sq) < SqRingEntries(entries)
     /\ Len(returned') <= Len(produced')
     /\ \A k \in 1..Len(returned') : returned'[k].id = produced'[k].gid
     /\ (sq' = <<>> /\ inflight' = EmptyBag /\ khead' = ktail' /\ pc' = "idle") =>
          /\ Len(returned') = Len(Encoded')
          /\ \A x \in Ids :
               Cardinality({k \in 1..Len(returned') : returned'[k].id = x})
                 = Cardinality({i \in 1..Len(Encoded') : Encoded'[i].gid = x})]_vars

\* C16 witness: a cancel with the greatest id hit a no-op with the least id
\* that was in flight; the target's completion, with the canceled indication,
\* and the cancel's own completion were both returned, under their ids.
C16_Witness ==
  /\ Len(returned) = 2
  /\ pc = "idle"
  /\ produced[1] = [kind |-> "ASYNC_CANCEL", gid |-> MaxId, res |-> 0]
  /\ produced[2] = [kind |-> "NOP", gid |-> MinId, res |-> -ECANCELED]
  /\ returned[1] = [id |-> MaxId, res |-> 0]
  /\ returned[2] = [id |-> MinId, res |-> -ECANCELED]

\* The arguments of an in-flight operation are ones the kernel can act on: its
\* file descriptors are open, a buffer is registered if it uses the registered
\* buffer, and the operation it is to cancel is in flight.
ValidArgs(op) ==
  /\ op.fd_ok
  /\ op.kind = "FIXED" => registered > 0
  /\ op.kind = "ASYNC_CANCEL" => CancelTargets(op, inflight) # {}

\* C18: on a live ring an encoder returns a boolean that says whether a slot
\* was free and nothing else, whatever its arguments: it never raises, and
\* with a free slot the operation is encoded even when its file descriptor is
\* not open, no buffer is registered or the cancel target is unknown.  Such an
\* operation fails in its completion: the kernel writes a negative result.
C18_OutcomeOnlyInCompletion ==
  [][/\ ret'.fn \in EncoderFns =>
          /\ ret'.tag = "bool"
          /\ ret'.b <=> Len(sq) < SqRingEntries(entries)
          /\ ret'.b => Len(sq') = Len(sq) + 1
     /\ ktail' = ktail + 1 =>
          LET c == produced'[Len(produced')]
          IN  c.res >= 0 =>
                \E op \in BagToSet(inflight) :
                  /\ op.gid = c.gid
                  /\ op.kind = c.kind
                  /\ CopiesIn(op, inflight') < CopiesIn(op, inflight)
                  /\ ValidArgs(op)]_vars

\* C18 witness: an operation on a file descriptor that is not open was
\* encoded, and its completion, with the error, was retrieved.
C18_Witness ==
  /\ Len(returned) = 1
  /\ returned[1].res = -EBADF
  /\ produced[1].res = -EBADF
  /\ ret.tag = "cqe_some"

\* An accept on the socket-address handle has completed.
AcceptCompleted == \E k \in 1..Len(produced) : produced[k].kind = "ACCEPT"

\* C17: ocaml_uring_extract_sockaddr returns the address the handle was
\* built from (family, bytes and length), whatever was done with the handle
\* in between, encoder calls that returned false included, as long as no
\* accept on the handle has completed.
C17_SockAddrRoundTrip ==
  (ret.fn = "extract_sockaddr" /\ ~AcceptCompleted) =>
    ret.res = handles.sock_addr.src[1]

\* The handle an operation of a kind refers to.
HandleOf(kind) ==
  IF kind \in {"CONNECT", "ACCEPT"} THEN "sock_addr"
  ELSE IF kind = "OPENAT2" THEN "open_how"
  ELSE "none"

\* The kinds of the operations encoded and not yet returned by a retrieval.
PendingKinds ==
  {KernelKind(sq[i].opcode) : i \in 1..Len(sq)}
  \cup {op.kind : op \in BagToSet(inflight)}
  \cup {produced[k].kind : k \in (Len(returned) + 1)..Len(produced)}

C19_BlockReleasedOnce ==
  \A name \in {"sock_addr", "open_how"} :
    LET h == handles[name]
    IN  /\ h.frees <= 1
        /\ h.block = "allocated" => (h.val = "data" /\ h.gc # "finalized")
        /\ h.gc = "finalized" => h.val = "NULL"
        /\ h.block = "freed" <=> h.frees = 1

\* C19 witness: the address translation raised inside make_sockaddr, and the
\* finalizer then freed the block of the partially built handle.
C19_Witness ==
  /\ handles.sock_addr.src # <<>>
  /\ get_sockaddr(handles.sock_addr.src[1]).error # 0
  /\ handles.sock_addr.gc = "finalized"
  /\ handles.sock_addr.block = "freed"
  /\ handles.sock_addr.frees = 1

====
